---------------------------- MODULE Spec2Model ----------------------------
(***************************************************************************)
(* Model of src/main.py: the Streamlit script that keeps a generation      *)
(* session in st.session_state and runs one of two button handlers per     *)
(* script run ("Generate Initial Image", "Generate Next Version").         *)
(*                                                                         *)
(* Names of the specification and of the code:                             *)
(*   contextImages      = st.session_state.image_history                   *)
(*   history            = st.session_state.generated_images                *)
(*   currentImage       = st.session_state.last_generated_image            *)
(*   currentDescription = st.session_state.last_text_response              *)
(***************************************************************************)
EXTENDS Naturals, Sequences, FiniteSets, TLC

VARIABLES
    session_state,  \* st.session_state: a function from the keys present to values
    rounds,         \* number of button presses handled so far (bounded)
    op,             \* what the last script run was: "connect", "render", "initial", "next"
    pre,            \* st.session_state when the last script run started
    prompt,         \* text area value of the last round
    uploads,        \* files of the uploader of the last round, in upload order
    reply,          \* what the external service answered in the last round
    calls,          \* the calls of generate_content in the last round, each its contents
    produced        \* the images the service's replies have yielded so far, in order

vars == <<session_state, rounds, op, pre, prompt, uploads, reply, calls, produced>>

---------------------------------------------------------------------------
(* Bounds of the model *)

\* Button presses in a behaviour of Spec.
MaxRounds == 3

\* Button presses in a behaviour of SpecDecode.
DecodeRounds == 2

\* Parts of a reply in SpecDecode.
MaxParts == 2

---------------------------------------------------------------------------
(* Values *)

None == "None"

\* The outcome of a call that raised an exception.
Raise == "Raise"

Keys == {"generated_images", "image_history", "last_generated_image", "last_text_response"}

\* st.session_state of a connection whose script has not run yet.
EmptySession == [k \in {} |-> None]

\* Uploaded files. Image.open turns a file into an image; it raises on a file
\* that is no image.
Files == {"f1", "f2"}

CorruptFile == "fbad"

\* Payloads of inline_data. Image.open(BytesIO(data)) raises on a payload that
\* is no image.
Payloads == {"d1", "d2"}

CorruptPayload == "dbad"

\* PIL.Image.open, on an uploaded file or on the bytes of a reply part.
ImageOpen(src) ==
    CASE src = "f1" -> "u1"
      [] src = "f2" -> "u2"
      [] src = "d1" -> "g1"
      [] src = "d2" -> "g2"
      [] OTHER -> Raise

\* A part of a reply: part.text and part.inline_data.data, one of them None.
TextPart(t) == [text |-> t, inline_data |-> None]

ImagePart(d) == [text |-> None, inline_data |-> d]

RECURSIVE SeqsUpTo(_, _)
SeqsUpTo(S, n) ==
    IF n = 0 THEN {<<>>}
    ELSE LET shorter == SeqsUpTo(S, n - 1)
         IN shorter \cup {Append(q, x) : q \in shorter, x \in S}

\* Replies: the call raised; the reply has no candidate; the reply has a list
\* of parts, with or without a corrupt image payload.
CallError == [status |-> "error", parts |-> <<>>]

NoCandidates == [status |-> "nocandidates", parts |-> <<>>]

\* No reply: nothing was asked of the service.
NoReply == [status |-> "none", parts |-> <<>>]

CorruptPartLists ==
    { <<ImagePart(CorruptPayload)>>,
      <<ImagePart("d1"), ImagePart(CorruptPayload)>> }

RepliesWith(partLists) ==
    {CallError, NoCandidates}
    \cup {[status |-> "ok", parts |-> p] : p \in partLists \cup CorruptPartLists}

\* The inputs of the rounds of Spec: uploads in either order, or an upload that
\* is no image; a reply of each shape (no part, text only, image only, text
\* and image in either order, several texts, several images).
SessionPrompts == {"", "p"}

SessionUploads ==
    {<<>>, <<"f1">>, <<"f1", "f2">>, <<"f2", "f1">>, <<CorruptFile>>}

SessionPartLists ==
    { <<>>,
      <<TextPart("a")>>,
      <<TextPart("a"), TextPart("a")>>,
      <<ImagePart("d1")>>,
      <<ImagePart("d2")>>,
      <<TextPart("a"), ImagePart("d1")>>,
      <<ImagePart("d2"), TextPart("a")>>,
      <<ImagePart("d1"), ImagePart("d2")>> }

SessionReplies == RepliesWith(SessionPartLists)

\* The inputs of the rounds of SpecDecode: every list of at most MaxParts
\* parts, over two texts (one of them empty) and two images, and no uploads.
DecodePrompts == {"p"}

DecodeUploads == {<<>>}

DecodeParts == {TextPart("a"), TextPart("")} \cup {ImagePart(d) : d \in Payloads}

DecodeReplies == RepliesWith(SeqsUpTo(DecodeParts, MaxParts))

---------------------------------------------------------------------------
(* Session state initialization *)

Defaults ==
    [generated_images |-> <<>>,
     image_history |-> <<>>,
     last_generated_image |-> None,
     last_text_response |-> ""]

\* SessionInit with the "not in st.session_state" guards left out.
SessionInitReset(s) == Defaults

\* Each key is set to its default only when it is not in st.session_state.
SessionInit(s) ==
    [k \in Keys |-> IF k \in DOMAIN s THEN s[k] ELSE Defaults[k]]

---------------------------------------------------------------------------
(* Pieces shared by the two handlers *)

\* [Image.open(img) for img in files]: the images, unless a file is no image
\* and the comprehension raises.
OpenAll(files) ==
    LET images == [i \in 1..Len(files) |-> ImageOpen(files[i])]
    IN IF \E i \in 1..Len(files) : images[i] = Raise
       THEN [raised |-> TRUE, images |-> <<>>]
       ELSE [raised |-> FALSE, images |-> images]

\* The result of an exception in the call or in the loop over the parts.
Raised == [raised |-> TRUE, text |-> "", image |-> None]

\* PartsLoop testing "if part.text:" in place of "if part.text is not None:".
RECURSIVE PartsLoopTruthy(_, _, _)
PartsLoopTruthy(parts, text, image) ==
    IF parts = <<>> THEN [raised |-> FALSE, text |-> text, image |-> image]
    ELSE LET part == Head(parts)
         IN IF part.text # None /\ part.text # ""
            THEN PartsLoopTruthy(Tail(parts), text \o part.text \o "\n", image)
            ELSE IF part.inline_data # None
            THEN LET opened == ImageOpen(part.inline_data)
                 IN IF opened = Raise THEN Raised
                    ELSE PartsLoopTruthy(Tail(parts), text, opened)
            ELSE PartsLoopTruthy(Tail(parts), text, image)

\* The loop over the parts of the reply, from the values (text, image) it has
\* accumulated so far.
RECURSIVE PartsLoop(_, _, _)
PartsLoop(parts, text, image) ==
    IF parts = <<>> THEN [raised |-> FALSE, text |-> text, image |-> image]
    ELSE LET part == Head(parts)
         IN IF part.text # None
            THEN PartsLoop(Tail(parts), text \o part.text \o "\n", image)
            ELSE IF part.inline_data # None
            THEN LET opened == ImageOpen(part.inline_data)
                 IN IF opened = Raise THEN Raised
                    ELSE PartsLoop(Tail(parts), text, opened)
            ELSE PartsLoop(Tail(parts), text, image)

---------------------------------------------------------------------------
(* "Generate Initial Image" *)

\* contents = [initial_prompt], extended by the opened uploads.
InitialContents(initial_prompt, images_for_content) ==
    <<initial_prompt>> \o images_for_content

\* The uploads of an initial round are stored before the call is made.
InitialStoreUploads(s, images_for_content) ==
    IF images_for_content # <<>>
    THEN [s EXCEPT !.image_history = images_for_content]
    ELSE s

\* generated_text, generated_image of response.candidates[0].content.parts.
InitialDecode(response) ==
    IF response.status # "ok" THEN Raised
    ELSE PartsLoop(response.parts, "", None)

\* InitialRecord without the assignment of its else branch.
InitialRecordKeepText(s, generated) ==
    IF generated.image # None
    THEN [s EXCEPT !.last_generated_image = generated.image,
                   !.last_text_response = generated.text,
                   !.generated_images = Append(@, generated.image)]
    ELSE s

\* InitialRecord assigning generated_images where it appends to it.
InitialRecordResetHistory(s, generated) ==
    IF generated.image # None
    THEN [s EXCEPT !.last_generated_image = generated.image,
                   !.last_text_response = generated.text,
                   !.generated_images = <<generated.image>>]
    ELSE [s EXCEPT !.last_text_response = generated.text]

InitialRecord(s, generated) ==
    IF generated.image # None
    THEN [s EXCEPT !.last_generated_image = generated.image,
                   !.last_text_response = generated.text,
                   !.generated_images = Append(@, generated.image)]
    ELSE [s EXCEPT !.last_text_response = generated.text]

\* The handler: the session it leaves and the calls it made, each the contents
\* it sent.
GenerateInitial(s, initial_prompt, uploaded_images, response) ==
    IF initial_prompt = "" THEN [session |-> s, calls |-> <<>>]
    ELSE LET opened == OpenAll(uploaded_images)
         IN IF opened.raised THEN [session |-> s, calls |-> <<>>]
            ELSE LET contents == InitialContents(initial_prompt, opened.images)
                     s1 == InitialStoreUploads(s, opened.images)
                     generated == InitialDecode(response)
                 IN IF generated.raised
                    THEN [session |-> s1, calls |-> <<contents>>]
                    ELSE [session |-> InitialRecord(s1, generated),
                          calls |-> <<contents>>]

---------------------------------------------------------------------------
(* "Generate Next Version" *)

\* FollowupContents sending the stored context images as well.
FollowupContentsWithHistory(s, followup_prompt, new_context_images) ==
    <<followup_prompt>>
    \o (IF s.last_generated_image # None THEN <<s.last_generated_image>> ELSE <<>>)
    \o s.image_history
    \o new_context_images

\* contents_followup = [followup_prompt], the last generated image when there
\* is one, then the opened uploads.
FollowupContents(s, followup_prompt, new_context_images) ==
    <<followup_prompt>>
    \o (IF s.last_generated_image # None THEN <<s.last_generated_image>> ELSE <<>>)
    \o new_context_images

FollowupStoreUploads(s, new_context_images) ==
    IF new_context_images # <<>>
    THEN [s EXCEPT !.image_history = @ \o new_context_images]
    ELSE s

FollowupDecode(response_followup) ==
    IF response_followup.status # "ok" THEN Raised
    ELSE PartsLoop(response_followup.parts, "", None)

\* FollowupRecord storing the image of the result whether there is one or not.
FollowupRecordAlways(s, generated) ==
    IF generated.image # None
    THEN [s EXCEPT !.last_generated_image = generated.image,
                   !.last_text_response = generated.text,
                   !.generated_images = Append(@, generated.image)]
    ELSE [s EXCEPT !.last_generated_image = generated.image,
                   !.last_text_response = generated.text]

\* FollowupRecord without the assignment of last_generated_image.
FollowupRecordStale(s, generated) ==
    IF generated.image # None
    THEN [s EXCEPT !.last_text_response = generated.text,
                   !.generated_images = Append(@, generated.image)]
    ELSE [s EXCEPT !.last_text_response = generated.text]

FollowupRecord(s, generated) ==
    IF generated.image # None
    THEN [s EXCEPT !.last_generated_image = generated.image,
                   !.last_text_response = generated.text,
                   !.generated_images = Append(@, generated.image)]
    ELSE [s EXCEPT !.last_text_response = generated.text]

\* GenerateNextVersion without the test of the prompt.
GenerateNextVersionNoValidation(s, followup_prompt, followup_uploaded_images, response_followup) ==
    LET opened == OpenAll(followup_uploaded_images)
    IN IF opened.raised THEN [session |-> s, calls |-> <<>>]
       ELSE LET contents_followup ==
                    FollowupContents(s, followup_prompt, opened.images)
                s1 == FollowupStoreUploads(s, opened.images)
                generated == FollowupDecode(response_followup)
            IN IF generated.raised
               THEN [session |-> s1, calls |-> <<contents_followup>>]
               ELSE IF generated.image # None
               THEN [session |-> SessionInit(FollowupRecord(s1, generated)),
                     calls |-> <<contents_followup>>]
               ELSE [session |-> FollowupRecord(s1, generated),
                     calls |-> <<contents_followup>>]

\* The handler; after a new image it ends in st.rerun(), which runs the script
\* again from its top with no button pressed.
GenerateNextVersion(s, followup_prompt, followup_uploaded_images, response_followup) ==
    IF followup_prompt = "" THEN [session |-> s, calls |-> <<>>]
    ELSE LET opened == OpenAll(followup_uploaded_images)
         IN IF opened.raised THEN [session |-> s, calls |-> <<>>]
            ELSE LET contents_followup ==
                         FollowupContents(s, followup_prompt, opened.images)
                     s1 == FollowupStoreUploads(s, opened.images)
                     generated == FollowupDecode(response_followup)
                 IN IF generated.raised
                    THEN [session |-> s1, calls |-> <<contents_followup>>]
                    ELSE IF generated.image # None
                    THEN [session |-> SessionInit(FollowupRecord(s1, generated)),
                          calls |-> <<contents_followup>>]
                    ELSE [session |-> FollowupRecord(s1, generated),
                          calls |-> <<contents_followup>>]

---------------------------------------------------------------------------
(* What a round's inputs are, whatever the handlers do with them *)

IsRound == op \in {"initial", "next"}

ImageIndices(parts) == {i \in 1..Len(parts) : parts[i].inline_data # None}

TextIndices(parts) == {i \in 1..Len(parts) : parts[i].text # None}

UploadsCorrupt(files) == \E i \in 1..Len(files) : files[i] \notin Files

PartsCorrupt(parts) == \E i \in ImageIndices(parts) : parts[i].inline_data \notin Payloads

\* "rejected": empty prompt; "upload_error": an upload is no image;
\* "call_error": the call raised; "decode_error": the reply cannot be decoded;
\* "image": a decodable reply with an image part; "text": one without.
Outcome(p, files, r) ==
    IF p = "" THEN "rejected"
    ELSE IF UploadsCorrupt(files) THEN "upload_error"
    ELSE IF r.status = "error" THEN "call_error"
    ELSE IF r.status # "ok" \/ PartsCorrupt(r.parts) THEN "decode_error"
    ELSE IF ImageIndices(r.parts) # {} THEN "image"
    ELSE "text"

Maximum(S) == CHOOSE m \in S : \A x \in S : x <= m

\* The image of the last image part of a list of parts.
LastImage(parts) == ImageOpen(parts[Maximum(ImageIndices(parts))].inline_data)

---------------------------------------------------------------------------
(* The script runs *)

Loaded == DOMAIN session_state = Keys

Init ==
    /\ session_state = EmptySession
    /\ rounds = 0
    /\ op = "connect"
    /\ pre = EmptySession
    /\ prompt = ""
    /\ uploads = <<>>
    /\ reply = NoReply
    /\ calls = <<>>
    /\ produced = <<>>

\* A script run with no button pressed: the first page load, or a re-render
\* after any other widget interaction.
Render ==
    /\ session_state' = SessionInit(session_state)
    /\ op' = "render"
    /\ pre' = session_state
    /\ prompt' = ""
    /\ uploads' = <<>>
    /\ reply' = NoReply
    /\ calls' = <<>>
    /\ UNCHANGED <<rounds, produced>>

\* The ghost part of a round: its inputs, and the images replies have yielded.
Observe(name, p, files, r) ==
    LET outcome == Outcome(p, files, r)
    IN /\ op' = name
       /\ pre' = session_state
       /\ prompt' = p
       /\ uploads' = files
       /\ reply' = r
       /\ produced' = IF outcome = "image"
                      THEN Append(produced, LastImage(r.parts))
                      ELSE produced
       /\ rounds' = rounds + 1

\* The service answers only when it is called: a round whose inputs are
\* rejected before the call has no reply.
Answers(p, files, replies) ==
    IF Outcome(p, files, NoReply) \in {"rejected", "upload_error"}
    THEN {NoReply}
    ELSE replies

\* A script run with "Generate Initial Image" pressed.
RunGenerateInitial(maxRounds, prompts, uploadLists, replies) ==
    /\ Loaded
    /\ rounds < maxRounds
    /\ \E p \in prompts, files \in uploadLists :
          \E r \in Answers(p, files, replies) :
             LET out == GenerateInitial(SessionInit(session_state), p, files, r)
             IN /\ session_state' = out.session
                /\ calls' = out.calls
                /\ Observe("initial", p, files, r)

\* A script run with "Generate Next Version" pressed; the button is rendered
\* only when there is a last generated image.
RunGenerateNextVersion(maxRounds, prompts, uploadLists, replies) ==
    /\ Loaded
    /\ SessionInit(session_state).last_generated_image # None
    /\ rounds < maxRounds
    /\ \E p \in prompts, files \in uploadLists :
          \E r \in Answers(p, files, replies) :
             LET out == GenerateNextVersion(SessionInit(session_state), p, files, r)
             IN /\ session_state' = out.session
                /\ calls' = out.calls
                /\ Observe("next", p, files, r)

InitialRound ==
    RunGenerateInitial(MaxRounds, SessionPrompts, SessionUploads, SessionReplies)

NextVersionRound ==
    RunGenerateNextVersion(MaxRounds, SessionPrompts, SessionUploads, SessionReplies)

Next == Render \/ InitialRound \/ NextVersionRound

Spec == Init /\ [][Next]_vars

\* The same script, with the inputs that exercise the decoding of the reply.
InitialDecodeRound ==
    RunGenerateInitial(DecodeRounds, DecodePrompts, DecodeUploads, DecodeReplies)

NextVersionDecodeRound ==
    RunGenerateNextVersion(DecodeRounds, DecodePrompts, DecodeUploads, DecodeReplies)

NextDecode == Render \/ InitialDecodeRound \/ NextVersionDecodeRound

SpecDecode == Init /\ [][NextDecode]_vars

---------------------------------------------------------------------------
(* What the claims speak of *)

RoundOutcome == Outcome(prompt, uploads, reply)

\* The uploads of the last round as images, in upload order.
UploadedImages == [i \in 1..Len(uploads) |-> ImageOpen(uploads[i])]

IsPrefix(a, b) == Len(a) <= Len(b) /\ SubSeq(b, 1, Len(a)) = a

\* Every text part followed by a newline, in the order of the parts.
RECURSIVE TextOf(_)
TextOf(parts) ==
    IF parts = <<>> THEN ""
    ELSE LET n == Len(parts)
         IN TextOf(SubSeq(parts, 1, n - 1))
            \o (IF n \in TextIndices(parts) THEN parts[n].text \o "\n" ELSE "")

\* The last image part's image, or None when there is no image part.
ImageOf(parts) == IF ImageIndices(parts) = {} THEN None ELSE LastImage(parts)

\* The images the replies had yielded when the last round started.
ProducedBefore ==
    IF IsRound /\ RoundOutcome = "image"
    THEN SubSeq(produced, 1, Len(produced) - 1)
    ELSE produced

---------------------------------------------------------------------------
(* C1: a round in which the call or the decoding of its reply fails leaves  *)
(* all four session fields as they were before the round.                  *)
C1_FailedRoundLeavesSession ==
    (IsRound /\ RoundOutcome \in {"call_error", "decode_error"})
        => session_state = pre

(* C2: contextImages is append-only: a round that goes through appends its *)
(* uploads, in upload order, to the end of contextImages, and the value    *)
(* before any round is a prefix of the value after it.                     *)
C2_ContextImagesAppendOnly ==
    IsRound =>
        /\ IsPrefix(pre.image_history, session_state.image_history)
        /\ RoundOutcome \in {"image", "text"}
              => session_state.image_history = pre.image_history \o UploadedImages

(* C3: a round whose call succeeds and whose reply has no image part       *)
(* leaves currentImage and history as they were and overwrites             *)
(* currentDescription with the round's text.                               *)
C3_TextOnlyRound ==
    (IsRound /\ RoundOutcome = "text") =>
        /\ session_state.last_generated_image = pre.last_generated_image
        /\ session_state.generated_images = pre.generated_images
        /\ session_state.last_text_response = TextOf(reply.parts)

C3_Witness ==
    /\ op = "next"
    /\ RoundOutcome = "text"
    /\ reply.parts = <<>>
    /\ pre.last_text_response # ""
    /\ session_state.last_text_response = ""
    /\ session_state.last_generated_image # None

(* C4: the length of history never decreases and equals the number of      *)
(* rounds so far whose reply yielded an image.                             *)
C4_HistoryCountsImageRounds ==
    Loaded =>
        /\ Len(session_state.generated_images) = Len(produced)
        /\ pre # EmptySession
              => Len(session_state.generated_images) >= Len(pre.generated_images)

C4_Witness ==
    /\ rounds = 3
    /\ op = "initial"
    /\ RoundOutcome = "image"
    /\ Len(session_state.generated_images) = 2

(* C5: currentImage is set exactly when some round has yielded an image,   *)
(* and no script run returns it to absent once it is set.                  *)
C5_CurrentImageSetOnce ==
    Loaded =>
        /\ (session_state.last_generated_image # None) <=> (produced # <<>>)
        /\ (pre # EmptySession /\ pre.last_generated_image # None)
              => session_state.last_generated_image # None

C5_Witness ==
    /\ op = "next"
    /\ RoundOutcome = "text"
    /\ pre.last_generated_image # None
    /\ session_state.last_generated_image = pre.last_generated_image

(* C6: a submission with an empty prompt, in either form and whatever the  *)
(* uploads, makes no call and leaves the session unchanged.                *)
C6_EmptyPromptRejected ==
    (IsRound /\ prompt = "") => (calls = <<>> /\ session_state = pre)

C6_Witness ==
    /\ op = "next"
    /\ prompt = ""
    /\ Len(uploads) = 2
    /\ pre.image_history # <<>>
    /\ calls = <<>>

(* C7: initialisation on a fresh connection yields the empty session, and  *)
(* on an existing session it changes nothing.                              *)
C7_InitialisationIdempotent ==
    op = "render" =>
        IF pre = EmptySession
        THEN session_state = [generated_images |-> <<>>,
                              image_history |-> <<>>,
                              last_generated_image |-> None,
                              last_text_response |-> ""]
        ELSE session_state = pre

C7_Witness ==
    /\ op = "render"
    /\ pre # EmptySession
    /\ Len(pre.generated_images) = 2
    /\ pre.image_history # <<>>
    /\ pre.last_text_response # ""
    /\ session_state = pre

(* C8: a round whose reply has an image sets currentImage to it, sets      *)
(* currentDescription to the round's text and appends the image to         *)
(* history; currentImage is the last element of a non-empty history; the   *)
(* seed a follow-up round sends is the most recently generated image.      *)
C8_ImageRoundAndSeed ==
    /\ (IsRound /\ RoundOutcome = "image") =>
          /\ session_state.last_generated_image = LastImage(reply.parts)
          /\ session_state.last_text_response = TextOf(reply.parts)
          /\ session_state.generated_images
                = Append(pre.generated_images, LastImage(reply.parts))
    /\ (Loaded /\ session_state.generated_images # <<>>) =>
          session_state.last_generated_image
              = session_state.generated_images[Len(session_state.generated_images)]
    /\ (op = "next" /\ calls # <<>>) =>
          /\ ProducedBefore # <<>>
          /\ Len(calls[1]) >= 2
          /\ calls[1][2] = ProducedBefore[Len(ProducedBefore)]

C8_Witness ==
    /\ op = "next"
    /\ RoundOutcome = "image"
    /\ Len(pre.generated_images) = 2
    /\ pre.generated_images[1] # pre.generated_images[2]
    /\ calls[1][2] = pre.generated_images[2]
    /\ session_state.last_generated_image # pre.last_generated_image

(* C9: the request of a round is the prompt, then the seed image (in every *)
(* follow-up round, in no initial round), then this round's uploads in     *)
(* upload order, and nothing else.                                         *)
C9_RequestParts ==
    (IsRound /\ RoundOutcome \notin {"rejected", "upload_error"}) =>
        /\ op = "next" => pre.last_generated_image # None
        /\ calls = << <<prompt>>
                      \o (IF op = "next" THEN <<pre.last_generated_image>> ELSE <<>>)
                      \o UploadedImages >>

C9_Witness ==
    /\ op = "initial"
    /\ pre # EmptySession
    /\ pre.last_generated_image # None
    /\ pre.image_history = <<"u1">>
    /\ uploads = <<"f2", "f1">>
    /\ calls = << <<"p", "u2", "u1">> >>

(* C10: the decoded text is every text part followed by a newline, in      *)
(* order; the decoded image is the last image part, or absent when there   *)
(* is none; several image parts, or none, are no error.                    *)
C10_DecodedResult ==
    (IsRound /\ reply.status = "ok" /\ ~PartsCorrupt(reply.parts)) =>
        LET decoded == IF op = "initial" THEN InitialDecode(reply)
                       ELSE FollowupDecode(reply)
        IN /\ ~decoded.raised
           /\ decoded.text = TextOf(reply.parts)
           /\ decoded.image = ImageOf(reply.parts)
           /\ session_state.last_text_response = decoded.text
           /\ decoded.image # None => session_state.last_generated_image = decoded.image
           /\ decoded.image = None
                 => session_state.last_generated_image = pre.last_generated_image

C10_Witness ==
    /\ op = "next"
    /\ reply.status = "ok"
    /\ reply.parts = <<ImagePart("d2"), ImagePart("d1")>>
    /\ pre.last_generated_image = "g2"
    /\ session_state.last_generated_image = "g1"
    /\ session_state.last_text_response = ""

===========================================================================
